---- MODULE Spec2Model ----
(***************************************************************************)
(* Rex, a minimal version-control engine (src/main.py): object codec,      *)
(* object store, index, tree builder, commit chain and checkout.           *)
(*                                                                         *)
(* Representation of byte strings and texts.  Every text is a tagged       *)
(* tuple so that any two of them can be compared:                          *)
(*   <<"str", s>>            a literal string s                            *)
(*   <<"sha1", type, c>>     the 40 hex digits of SHA1("type len\0" + c);  *)
(*                           SHA-1 is taken to be collision free, so the   *)
(*                           digest is named by its preimage               *)
(*   <<"ref", n>>            the text "ref: refs/heads/" + n               *)
(*   <<"line", t>>           the text t followed by "\n"                   *)
(*   <<"json", m>>           the JSON text of the mapping m                *)
(* A path "a/b" is the sequence of its segments <<"a", "b">>, which is     *)
(* what path.split("/") and Path.parts compute.                            *)
(***************************************************************************)
EXTENDS Integers, Sequences, FiniteSets, TLC

VARIABLES rex, objects, index, HEAD, heads, files, dirs, last, snap, t1, t2,
          session, given, decoded

\* the repository, and two Tree objects under construction.  snap is a
\* history variable: the tree hash of the latest commit that returned, as long
\* as no add has run since.  session is fixed from the start of a run: in a
\* "work" session the user stages working files and the index file, in a
\* "meta" session only files of the .rex directory.  given is a GitObject
\* at the level of bytes and decoded the result of serializing and
\* deserializing it.
repo == <<rex, objects, index, HEAD, heads, files, dirs, last, snap>>
trees == <<t1, t2>>
codec == <<given, decoded>>
vars == <<repo, trees, session, codec>>

(***************************************************************************)
(* Bounds of the model.                                                    *)
(***************************************************************************)
MaxObjects == 4

\* the store of a session that stages only metadata files
MaxObjectsMeta == 6

\* working files a user edits; "a" is both a file name and a directory name
UserPaths == {<<"a">>, <<"a", "b">>}

\* the <<path, content>> a user writes into the working directory
Writes == {<<<<"a">>, "x">>, <<<<"a", "b">>, "x">>}

\* the metadata files of the model that `add` on a single file can stage
IndexPath == <<".rex", "index">>
HeadPath == <<".rex", "HEAD">>
MetaPaths == {IndexPath, HeadPath}

\* names given to checkout besides the hashes of stored objects: a branch
\* name and a string of six hexadecimal digits
Names == {"master", "facade"}

\* a name given to checkout only without the create flag
PlainNames == {"dev"}

\* the branch names of a metadata session
MetaNames == {"master", "dev"}

Messages == {"m"}
Times == {1}

(***************************************************************************)
(* Texts.                                                                  *)
(***************************************************************************)
Str(s) == <<"str", s>>
Line(t) == <<"line", t>>
Ref(n) == <<"ref", n>>
EmptyText == Str("")

\* str.strip() on the texts the program writes: drops the trailing newline
strip(t) == IF t[1] = "line" THEN t[2] ELSE t

\* the characters of the literal strings of the model
Chars(s) ==
  CASE s = "master" -> <<"m", "a", "s", "t", "e", "r">>
    [] s = "dev" -> <<"d", "e", "v">>
    [] s = "facade" -> <<"f", "a", "c", "a", "d", "e">>
    [] OTHER -> <<>>

lower(c) ==
  CASE c = "A" -> "a" [] c = "B" -> "b" [] c = "C" -> "c"
    [] c = "D" -> "d" [] c = "E" -> "e" [] c = "F" -> "f"
    [] OTHER -> c

HexDigits == {"0", "1", "2", "3", "4", "5", "6", "7", "8", "9",
              "a", "b", "c", "d", "e", "f"}

HashMinLen == 6

\* the names of the model that are not hash-like
NonHashNames == {"master", "dev"}

\* an _is_hash that accepts every name
is_hash_any(s) == TRUE

\* Repository._is_hash
_is_hash(s) ==
  IF s[1] = "sha1" THEN TRUE
  ELSE IF s[1] = "str"
       THEN LET cs == Chars(s[2])
            IN Len(cs) >= HashMinLen /\ \A i \in 1..Len(cs) : lower(cs[i]) \in HexDigits
       ELSE FALSE

(***************************************************************************)
(* Object codec.                                                           *)
(***************************************************************************)
GitObject(t, c) == [type |-> t, content |-> c]

\* GitObject.hash
hash(obj) == <<"sha1", obj.type, obj.content>>

Blob(c) == GitObject("blob", c)

\* order of str comparison on the names of the model (code points)
NameOrder == <<".rex", "HEAD", "a", "b", "index">>
NameRank(n) == CHOOSE i \in 1..Len(NameOrder) : NameOrder[i] = n

\* sorted(entries, key=lambda e: e[1]): a stable sort by name
RECURSIVE sorted_by_name(_)
sorted_by_name(es) ==
  IF es = <<>> THEN <<>>
  ELSE LET n == Len(es)
           e == es[n]
           rest == sorted_by_name(SubSeq(es, 1, n - 1))
           k == Cardinality({i \in 1..Len(rest) : NameRank(rest[i][2]) <= NameRank(e[2])})
       IN SubSeq(rest, 1, k) \o <<e>> \o SubSeq(rest, k + 1, Len(rest))

\* a Tree that encodes its entries in insertion order
serialize_unsorted(entries) == entries

\* Tree._serialize_entries: "<mode> <name>\0" + 20 raw bytes per entry
_serialize_entries(entries) == sorted_by_name(entries)

\* Tree.__init__
Tree(entries) ==
  [type |-> "tree", entries |-> entries, content |-> _serialize_entries(entries)]

\* Tree.add_entry
add_entry(tree, mode, name, obj_hash) ==
  LET es == Append(tree.entries, <<mode, name, obj_hash>>)
  IN [type |-> "tree", entries |-> es, content |-> _serialize_entries(es)]

\* Tree.from_content
from_content(content) == Tree(content)

Commit(c) == GitObject("commit", c)

\* GitObject.serialize: zlib.compress(header + content)
serialize(obj) == [type |-> obj.type, content |-> obj.content]

\* GitObject.deserialize
deserialize(data) ==
  IF data.type = "tree" THEN from_content(data.content)
  ELSE GitObject(data.type, data.content)

(***************************************************************************)
(* Object store: a map from hash to the serialized bytes stored under it.  *)
(***************************************************************************)
\* a store_object that writes the object into an emptied store
store_object_alone(objs, obj) == [h \in {hash(obj)} |-> serialize(obj)]

\* Repository.store_object, as the new content of the store
store_object(objs, obj) ==
  LET obj_hash == hash(obj)
  IN IF obj_hash \in DOMAIN objs THEN objs
     ELSE [h \in DOMAIN objs \cup {obj_hash} |->
             IF h = obj_hash THEN serialize(obj) ELSE objs[h]]

RECURSIVE store_all(_, _)
store_all(objs, seq) ==
  IF seq = <<>> THEN objs
  ELSE store_all(store_object(objs, Head(seq)), Tail(seq))

\* Repository.read_object; the file is missing when has_object is false
has_object(objs, obj_hash) == obj_hash \in DOMAIN objs
read_object(objs, obj_hash) == deserialize(objs[obj_hash])

(***************************************************************************)
(* Index: a dict, kept in insertion order, from path to blob hash, as a    *)
(* sequence of <<path, blob hash>>.  The index file holds its JSON text.   *)
(***************************************************************************)
Json(m) == <<"json", m>>

\* Repository.load_index: an unparsable file reads as the empty index
load_index(index_bytes) == IF index_bytes[1] = "json" THEN index_bytes[2] ELSE <<>>

\* Repository.save_index, as the new bytes of the index file
save_index(idx) == Json(idx)

index_keys(idx) == {idx[i][1] : i \in 1..Len(idx)}

\* dict.__setitem__ on the index: a known key keeps its position
index_set(idx, path, blob_hash) ==
  IF path \in index_keys(idx)
  THEN [i \in 1..Len(idx) |-> IF idx[i][1] = path THEN <<path, blob_hash>> ELSE idx[i]]
  ELSE Append(idx, <<path, blob_hash>>)

(***************************************************************************)
(* Tree builder.  A dict is a function from names to values; a value is a  *)
(* blob hash (a str) or <<"dict", d>> for a nested dict.                   *)
(***************************************************************************)
EmptyDict == [n \in {} |-> <<>>]
Dict(d) == <<"dict", d>>
is_str(val) == val[1] # "dict"
dict_set(d, k, v) == [n \in DOMAIN d \cup {k} |-> IF n = k THEN v ELSE d[n]]

\* one iteration of the loop of create_tree_from_index (lines 197-201):
\* walks parts[:-1] with setdefault, then assigns the last part.
\* ok is FALSE when a str is met where a dict is needed (TypeError).
RECURSIVE insert_path(_, _, _)
insert_path(d, parts, blob_hash) ==
  IF Len(parts) = 1
  THEN [ok |-> TRUE, d |-> dict_set(d, parts[1], blob_hash)]
  ELSE LET p == Head(parts)
           current == IF p \in DOMAIN d THEN d[p] ELSE Dict(EmptyDict)
       IN IF is_str(current) THEN [ok |-> FALSE, d |-> d]
          ELSE LET r == insert_path(current[2], Tail(parts), blob_hash)
               IN [ok |-> r.ok, d |-> dict_set(d, p, Dict(r.d))]

\* the loop over index.items() (lines 195-201)
RECURSIVE build_root(_, _)
build_root(root, idx) ==
  IF idx = <<>> THEN [ok |-> TRUE, d |-> root]
  ELSE LET r == insert_path(root, idx[1][1], idx[1][2])
       IN IF r.ok THEN build_root(r.d, Tail(idx)) ELSE r

\* sorted(d.items()): the names of d in ascending order
RECURSIVE sorted_names(_)
sorted_names(S) ==
  IF S = {} THEN <<>>
  ELSE LET m == CHOOSE n \in S : \A o \in S : NameRank(n) <= NameRank(o)
       IN <<m>> \o sorted_names(S \ {m})

\* build (lines 203-210): the Tree of a dict and the objects it stores,
\* subtrees first
RECURSIVE build(_)
RECURSIVE build_entries(_, _, _)
build_entries(d, names, acc) ==
  IF names = <<>> THEN acc
  ELSE LET name == Head(names)
           val == d[name]
       IN IF is_str(val)
          THEN build_entries(d, Tail(names),
                 [tree |-> add_entry(acc.tree, "100644", name, val),
                  stored |-> acc.stored])
          ELSE LET sub == build(val[2])
               IN build_entries(d, Tail(names),
                    [tree |-> add_entry(acc.tree, "40000", name, sub.hash),
                     stored |-> acc.stored \o sub.stored])
build(d) ==
  LET r == build_entries(d, sorted_names(DOMAIN d), [tree |-> Tree(<<>>), stored |-> <<>>])
  IN [hash |-> hash(r.tree), stored |-> Append(r.stored, r.tree)]

\* Repository.create_tree_from_index: ok is FALSE when it raises
create_tree_from_index(index_bytes) ==
  LET idx == load_index(index_bytes) IN
  IF idx = <<>>
  THEN [ok |-> TRUE, hash |-> hash(Tree(<<>>)), stored |-> <<Tree(<<>>)>>]
  ELSE LET r == build_root(EmptyDict, idx)
       IN IF r.ok
          THEN LET b == build(r.d) IN [ok |-> TRUE, hash |-> b.hash, stored |-> b.stored]
          ELSE [ok |-> FALSE, hash |-> EmptyText, stored |-> <<>>]

(***************************************************************************)
(* Commit chain helpers.                                                   *)
(***************************************************************************)
None == <<"None">>

branch_of(ref_text) == ref_text[2]

\* Repository._read_head_ref: (ref, parent)
_read_head_ref(head, hds) ==
  LET text == strip(head)
  IN IF text[1] = "ref"
     THEN [ref |-> text,
           parent |-> IF branch_of(text) \in DOMAIN hds
                      THEN strip(hds[branch_of(text)]) ELSE None]
     ELSE [ref |-> None, parent |-> text]

\* truth value of `parent` in `if parent:` and `parent or ""`
truthy(t) == t # None /\ t # EmptyText

\* the lines of the commit record (lines 231-235), one <<key, rest>> per line
commit_lines(tree_hash, parent, author_line, message) ==
  <<<<"tree", tree_hash>>>>
  \o (IF truthy(parent) THEN <<<<"parent", parent>>>> ELSE <<>>)
  \o <<<<"author", author_line>>, <<"committer", author_line>>, <<"", "">>,
       <<"message", message>>>>

\* content.decode().splitlines() of a stored object: only a commit record
\* of the model has lines
splitlines(obj) == IF obj.type = "commit" THEN obj.content ELSE <<>>

\* Repository._read_commit_tree: ok is FALSE when it raises
_read_commit_tree(objs, commit_hash) ==
  IF ~has_object(objs, commit_hash) THEN [ok |-> FALSE, tree |-> EmptyText]
  ELSE LET lines == splitlines(read_object(objs, commit_hash))
           hits == {i \in 1..Len(lines) : lines[i][1] = "tree"}
       IN IF hits = {} THEN [ok |-> FALSE, tree |-> EmptyText]
          ELSE [ok |-> TRUE,
                tree |-> lines[CHOOSE i \in hits : \A j \in hits : i <= j][2]]

\* the parent line of a commit record, None when it has none
parent_of(objs, commit_hash) ==
  LET lines == splitlines(read_object(objs, commit_hash))
      hits == {i \in 1..Len(lines) : lines[i][1] = "parent"}
  IN IF hits = {} THEN None ELSE lines[CHOOSE i \in hits : TRUE][2]

is_commit(objs, h) == has_object(objs, h) /\ objs[h].type = "commit"

(***************************************************************************)
(* Working directory: `files` maps the path of every regular file outside  *)
(* .rex to its bytes, `dirs` is the set of directories outside .rex.       *)
(* HEAD, index and heads hold the bytes of .rex/HEAD, of .rex/index and of  *)
(* the files of .rex/refs/heads, keyed by branch name.                     *)
(***************************************************************************)
IsPrefix(p, q) == Len(p) < Len(q) /\ SubSeq(q, 1, Len(p)) = p

\* the depth of the deepest directory of ds
max_depth(ds) ==
  IF ds = {} THEN 0 ELSE CHOOSE n \in {Len(d) : d \in ds} : \A d \in ds : Len(d) <= n

func_set(f, k, v) == [n \in DOMAIN f \cup {k} |-> IF n = k THEN v ELSE f[n]]
func_del(f, k) == [n \in DOMAIN f \ {k} |-> f[n]]

\* the wipe loop of checkout (lines 294-312) on a snapshot [files, dirs]:
\* every top-level item but .rex is visited; files are unlinked; the
\* directories are removed deepest first, and rmdir fails on a non-empty one
wipe_files(fs) == [p \in {q \in DOMAIN fs : q[1] = ".rex"} |-> fs[p]]

RECURSIVE wipe_dirs(_, _, _)
wipe_dirs(ds, fs, depth) ==
  IF depth = 0 THEN ds
  ELSE LET empty(d) == /\ \A f \in DOMAIN fs : ~IsPrefix(d, f)
                       /\ \A e \in ds : ~IsPrefix(d, e)
           gone == {d \in ds : Len(d) = depth /\ d[1] # ".rex" /\ empty(d)}
       IN wipe_dirs(ds \ gone, fs, depth - 1)

\* Repository._restore_tree (lines 257-269) as the sequence of file-system
\* operations it performs; ok is FALSE when it raises, after the
\* operations made so far
RECURSIVE _restore_tree(_, _, _)
RECURSIVE restore_entries(_, _, _, _)
restore_entries(objs, entries, base, acc) ==
  IF entries = <<>> THEN [ok |-> TRUE, ops |-> acc]
  ELSE LET mode == entries[1][1]
           dest == Append(base, entries[1][2])
           obj_hash == entries[1][3]
       IN IF ~has_object(objs, obj_hash) THEN [ok |-> FALSE, ops |-> acc]
          ELSE IF mode = "40000"
               THEN LET r == _restore_tree(objs, obj_hash, dest)
                        done == Append(acc, <<"mkdir", dest, EmptyText>>) \o r.ops
                    IN IF r.ok THEN restore_entries(objs, Tail(entries), base, done)
                       ELSE [ok |-> FALSE, ops |-> done]
               ELSE restore_entries(objs, Tail(entries), base,
                      Append(acc, <<"write", dest, read_object(objs, obj_hash).content>>))
_restore_tree(objs, tree_hash, base) ==
  IF ~has_object(objs, tree_hash) THEN [ok |-> FALSE, ops |-> <<>>]
  ELSE LET tree == read_object(objs, tree_hash)
       IN IF tree.type # "tree" THEN [ok |-> FALSE, ops |-> <<>>]
          ELSE restore_entries(objs, tree.entries, base, <<>>)

\* the effect of mkdir(exist_ok=True) and write_bytes on the file system
apply_op(fsys, op) ==
  LET dest == op[2]
  IN IF op[1] = "mkdir"
     THEN IF dest[1] = ".rex" THEN fsys
          ELSE [fsys EXCEPT !.dirs = @ \cup {dest}]
     ELSE IF dest = IndexPath THEN [fsys EXCEPT !.index = op[3]]
          ELSE IF dest = HeadPath THEN [fsys EXCEPT !.HEAD = op[3]]
          ELSE [fsys EXCEPT !.files = func_set(@, dest, op[3])]

RECURSIVE apply_ops(_, _)
apply_ops(fsys, ops) ==
  IF ops = <<>> THEN fsys ELSE apply_ops(apply_op(fsys, Head(ops)), Tail(ops))

\* Path.is_file, Path.is_dir and Path.read_bytes under the repository root
is_file(path, fs) == path \in DOMAIN fs \/ path \in MetaPaths
is_dir(path, ds) == path = <<>> \/ path \in ds
read_bytes(path, head, index_bytes, fs) ==
  IF path = IndexPath THEN index_bytes
  ELSE IF path = HeadPath THEN head
  ELSE fs[path]

\* full.rglob("*") filtered by is_file and ".rex" not in parts
rglob_files(path, fs) ==
  {f \in DOMAIN fs : (path = <<>> \/ IsPrefix(path, f)) /\ \A i \in 1..Len(f) : f[i] # ".rex"}

\* every order in which a directory scan may yield the files of S
Orders(S) ==
  {o \in [1..Cardinality(S) -> S] : \A i, j \in 1..Cardinality(S) : i # j => o[i] # o[j]}

\* the loop of add_directory (lines 175-179) over the files in order
RECURSIVE add_each(_, _, _)
add_each(st, order, fs) ==
  IF order = <<>> THEN st
  ELSE LET blob == Blob(fs[Head(order)])
       IN add_each([objects |-> store_object(st.objects, blob),
                    index |-> index_set(st.index, Head(order), hash(blob))],
                   Tail(order), fs)

\* the operation that ran last: its name, whether it returned normally,
\* the branch of the code it took, its argument and its result
Last(op, ok, via, arg, create, ret) ==
  [op |-> op, ok |-> ok, via |-> via, arg |-> arg, create |-> create, ret |-> ret]

(***************************************************************************)
(* State machine.                                                          *)
(***************************************************************************)
\* the capacity of the object store in the model
within_bounds(objs) ==
  Cardinality(DOMAIN objs) <= (IF session = "meta" THEN MaxObjectsMeta ELSE MaxObjects)

EmptyFn == [x \in {} |-> <<>>]

\* `last` after an operation whose outcome no property refers to: an edit,
\* an add, or an init that found the repository present
Quiet == Last("quiet", TRUE, "", <<>>, FALSE, None)
Author == "Rex User <user@rex.com>"
Tz == "+0000"

Init ==
  /\ rex = FALSE
  /\ objects = EmptyFn
  /\ index = None
  /\ HEAD = None
  /\ heads = EmptyFn
  /\ files = EmptyFn
  /\ dirs = {}
  /\ last = Last("none", TRUE, "", <<>>, FALSE, None)
  /\ snap = None
  /\ t1 = Tree(<<>>)
  /\ t2 = Tree(<<>>)
  /\ session = "work"
  /\ given = None
  /\ decoded = None

\* Repository.init
init ==
  IF rex
  THEN /\ last' = Quiet
       /\ UNCHANGED <<rex, objects, index, HEAD, heads, files, dirs, snap, trees, session, codec>>
  ELSE /\ rex' = TRUE
       /\ HEAD' = Line(Ref(Str("master")))
       /\ index' = save_index(<<>>)
       /\ last' = Last("init", TRUE, "created", <<>>, FALSE, None)
       /\ UNCHANGED <<objects, heads, files, dirs, snap, trees, session, codec>>

\* the user edits the working directory between commands
edit_write(path, c) ==
  /\ rex
  /\ path \notin dirs
  /\ \A f \in DOMAIN files : ~IsPrefix(f, path)
  /\ files' = func_set(files, path, Str(c))
  /\ dirs' = dirs \cup {SubSeq(path, 1, n) : n \in 1..(Len(path) - 1)}
  /\ last' = Quiet
  /\ UNCHANGED <<rex, objects, index, HEAD, heads, snap, trees, session, codec>>

edit_remove(path) ==
  /\ rex
  /\ \/ /\ path \in DOMAIN files
        /\ files' = func_del(files, path)
        /\ dirs' = dirs
     \/ /\ path \in dirs
        /\ \A f \in DOMAIN files : ~IsPrefix(path, f)
        /\ \A d \in dirs : ~IsPrefix(path, d)
        /\ dirs' = dirs \ {path}
        /\ files' = files
  /\ last' = Quiet
  /\ UNCHANGED <<rex, objects, index, HEAD, heads, snap, trees, session, codec>>

\* Repository.add_file
add_file(path) ==
  LET blob == Blob(read_bytes(path, HEAD, index, files))
  IN /\ objects' = store_object(objects, blob)
     /\ index' = save_index(index_set(load_index(index), path, hash(blob)))
     /\ last' = Quiet

\* Repository.add_directory
add_directory(path) ==
  \E order \in Orders(rglob_files(path, files)) :
    LET st == add_each([objects |-> objects, index |-> load_index(index)], order, files)
    IN /\ objects' = st.objects
       /\ index' = save_index(st.index)
       /\ last' = Quiet

\* Repository.add_path
add_path(path) ==
  /\ rex
  /\ IF is_file(path, files) THEN add_file(path)
     ELSE IF is_dir(path, dirs) THEN add_directory(path)
     ELSE /\ last' = Quiet
          /\ UNCHANGED <<objects, index>>
  /\ within_bounds(objects')
  /\ snap' = None
  /\ UNCHANGED <<rex, HEAD, heads, files, dirs, trees, session, codec>>

\* Repository.commit
commit(message, now) ==
  LET t == create_tree_from_index(index)
      hr == _read_head_ref(HEAD, heads)
      author_line == <<Author, now, Tz>>
      commit_obj == Commit(commit_lines(t.hash, hr.parent, author_line, message))
      commit_hash == hash(commit_obj)
  IN /\ rex
     /\ IF ~t.ok
        THEN /\ last' = Last("commit", FALSE, "TypeError", <<>>, FALSE, None)
             /\ UNCHANGED <<objects, HEAD, heads, snap>>
        ELSE /\ objects' = store_object(store_all(objects, t.stored), commit_obj)
             /\ snap' = t.hash
             /\ IF hr.ref # None
                THEN /\ heads' = func_set(heads, branch_of(hr.ref), Line(commit_hash))
                     /\ HEAD' = HEAD
                     /\ last' = Last("commit", TRUE, "branch", <<>>, FALSE, commit_hash)
                ELSE /\ HEAD' = Line(commit_hash)
                     /\ heads' = heads
                     /\ last' = Last("commit", TRUE, "detached", <<>>, FALSE, commit_hash)
     /\ within_bounds(objects')
     /\ UNCHANGED <<rex, index, files, dirs, trees, session, codec>>

\* lines 293-316 of checkout: wipe, resolve the tree, restore
checkout_sync(head1, target_commit, via, name, create) ==
  LET wiped == [HEAD |-> head1, heads |-> heads, index |-> index,
                files |-> wipe_files(files),
                dirs |-> wipe_dirs(dirs, wipe_files(files), max_depth(dirs))]
      ct == _read_commit_tree(objects, target_commit)
      r == _restore_tree(objects, ct.tree, <<>>)
      fsys == IF ct.ok THEN apply_ops(wiped, r.ops) ELSE wiped
  IN /\ HEAD' = fsys.HEAD
     /\ heads' = fsys.heads
     /\ index' = fsys.index
     /\ files' = fsys.files
     /\ dirs' = fsys.dirs
     /\ last' = Last("checkout", ct.ok /\ r.ok, via, name, create, target_commit)

\* Repository.checkout
checkout(name, create) ==
  /\ rex
  /\ IF name \in DOMAIN heads
     THEN checkout_sync(Line(Ref(name)), strip(heads[name]), "branch", name, create)
     ELSE IF _is_hash(name)
     THEN checkout_sync(Line(name), name, "hash", name, create)
     ELSE IF create
     THEN LET parent == _read_head_ref(HEAD, heads).parent
          IN /\ heads' = func_set(heads, name, Line(IF truthy(parent) THEN parent ELSE EmptyText))
             /\ HEAD' = Line(Ref(name))
             /\ last' = Last("checkout", TRUE, "create", name, create, None)
             /\ UNCHANGED <<index, files, dirs>>
     ELSE /\ last' = Last("checkout", FALSE, "unknown", name, create, None)
          /\ UNCHANGED <<HEAD, heads, index, files, dirs>>
  /\ UNCHANGED <<rex, objects, snap, trees, session, codec>>

\* the loop of log (lines 325-339) from `current` on: the hashes printed so
\* far; ok is FALSE when read_object raises FileNotFoundError
RECURSIVE log_from(_, _, _)
log_from(objs, current, printed) ==
  IF ~truthy(current) THEN [ok |-> TRUE, printed |-> printed]
  ELSE IF ~has_object(objs, current) THEN [ok |-> FALSE, printed |-> printed]
  ELSE IF read_object(objs, current).type # "commit" THEN [ok |-> TRUE, printed |-> printed]
  ELSE log_from(objs, parent_of(objs, current), Append(printed, current))

\* Repository.log
log ==
  LET head == _read_head_ref(HEAD, heads).parent
      r == log_from(objects, strip(head), <<>>)
  IN /\ rex
     /\ last' = Last("log", r.ok, "", <<>>, FALSE, <<"log", r.printed>>)
     /\ UNCHANGED <<rex, objects, index, HEAD, heads, files, dirs, snap, trees, session,
                    codec>>

\* the arguments of add: the working files, "." and one metadata file in a
\* working session, the metadata files alone in a metadata session
AddPaths ==
  IF session = "meta" THEN MetaPaths ELSE UserPaths \cup {IndexPath} \cup {<<>>}
\* the names given to checkout: the names and the hash of every stored commit
CheckoutNames ==
  {Str(n) : n \in IF session = "meta" THEN MetaNames ELSE Names}
    \cup {h \in DOMAIN objects : objects[h].type = "commit"}

\* the arguments of checkout: <<name, create>>
CheckoutArgs ==
  (CheckoutNames \X BOOLEAN)
    \cup (IF session = "meta" THEN {} ELSE {<<Str(n), FALSE>> : n \in PlainNames})

Next ==
  \/ init
  \/ \E w \in Writes : edit_write(w[1], w[2])
  \/ \E path \in UserPaths : edit_remove(path)
  \/ \E path \in AddPaths : add_path(path)
  \/ \E message \in Messages, now \in Times : commit(message, now)
  \/ \E arg \in CheckoutArgs : checkout(arg[1], arg[2])
  \/ log

Spec == Init /\ [][Next]_vars

\* the sessions in which the user stages only files of the .rex directory
InitMeta ==
  /\ rex = FALSE
  /\ objects = EmptyFn
  /\ index = None
  /\ HEAD = None
  /\ heads = EmptyFn
  /\ files = EmptyFn
  /\ dirs = {}
  /\ last = Last("none", TRUE, "", <<>>, FALSE, None)
  /\ snap = None
  /\ t1 = Tree(<<>>)
  /\ t2 = Tree(<<>>)
  /\ session = "meta"
  /\ given = None
  /\ decoded = None

\* the working directory stays empty in these sessions
NextMeta ==
  \/ init
  \/ \E path \in AddPaths : add_path(path)
  \/ \E message \in Messages, now \in Times : commit(message, now)
  \/ \E arg \in CheckoutArgs : checkout(arg[1], arg[2])

SpecMeta == InitMeta /\ [][NextMeta]_vars

(***************************************************************************)
(* Tree objects built by hand: the constructor on a list of entries, then  *)
(* add_entry.                                                              *)
(***************************************************************************)
MaxEntries == 3

EntryPool ==
  {<<"100644", "a", hash(Blob(Str("x")))>>, <<"40000", "a", hash(Tree(<<>>))>>,
   <<"100644", "b", hash(Blob(Str("x")))>>, <<"40000", "b", hash(Tree(<<>>))>>}

InitEntries == {<<>>} \cup {<<e>> : e \in EntryPool}

InitTree ==
  /\ rex = FALSE
  /\ objects = EmptyFn
  /\ index = None
  /\ HEAD = None
  /\ heads = EmptyFn
  /\ files = EmptyFn
  /\ dirs = {}
  /\ last = Last("none", TRUE, "", <<>>, FALSE, None)
  /\ snap = None
  /\ t1 \in {Tree(es) : es \in InitEntries}
  /\ t2 \in {Tree(es) : es \in InitEntries}
  /\ session = "work"
  /\ given = None
  /\ decoded = None

tree_add1(e) ==
  /\ Len(t1.entries) < MaxEntries
  /\ t1' = add_entry(t1, e[1], e[2], e[3])
  /\ UNCHANGED <<t2, repo, session, codec>>

tree_add2(e) ==
  /\ Len(t2.entries) < MaxEntries
  /\ t2' = add_entry(t2, e[1], e[2], e[3])
  /\ UNCHANGED <<t1, repo, session, codec>>

NextTree ==
  \/ \E e \in EntryPool : tree_add1(e)
  \/ \E e \in EntryPool : tree_add2(e)

SpecTree == InitTree /\ [][NextTree]_vars

(***************************************************************************)
(* The codec at the level of bytes.  A byte string is a sequence of bytes; *)
(* a byte is a one-character string, and NUL stands for the byte "\0".     *)
(***************************************************************************)
NUL == "NUL"
SP == " "

\* the bytes of a stored hash (lines 79 and 81)
HashBytes == 20

\* the longest content drawn from ContentBytes
MaxLen == 3

\* bytes.find(b, start): the first position from start on, 0 when there is
\* none (Python's -1)
find(bs, b, start) ==
  LET hits == {i \in start..Len(bs) : bs[i] = b}
  IN IF hits = {} THEN 0 ELSE CHOOSE i \in hits : \A j \in hits : i <= j

\* bytes.split(sep) and str.split(sep)
RECURSIVE split(_, _)
split(bs, sep) ==
  LET k == find(bs, sep, 1)
  IN IF k = 0 THEN <<bs>>
     ELSE <<SubSeq(bs, 1, k - 1)>> \o split(SubSeq(bs, k + 1, Len(bs)), sep)

\* str(n) in f"{len(self.content)}"
Digits == <<"0", "1", "2", "3", "4", "5", "6", "7", "8", "9">>
RECURSIVE decimal(_)
decimal(n) ==
  IF n < 10 THEN <<Digits[n + 1]>> ELSE Append(decimal(n \div 10), Digits[(n % 10) + 1])

\* zlib.compress and zlib.decompress: lossless
compress(bs) == <<"zlib", bs>>
decompress(data) == data[2]

\* bytes.hex and bytes.fromhex
hex(bs) == <<"hex", bs>>
fromhex(h) == h[2]

\* the header f"{self.type} {len(self.content)}\0"
header(o) == o.type \o <<SP>> \o decimal(Len(o.content)) \o <<NUL>>

\* GitObject.serialize on bytes
serialize_bytes(o) == compress(header(o) \o o.content)

\* the order of bytes, and of str, by code point
ByteOrder == <<NUL, SP, "1", "a", "b">>
ByteRank(c) == CHOOSE i \in 1..Len(ByteOrder) : ByteOrder[i] = c
RECURSIVE str_le(_, _)
str_le(x, y) ==
  IF x = <<>> THEN TRUE
  ELSE IF y = <<>> THEN FALSE
  ELSE IF x[1] = y[1] THEN str_le(Tail(x), Tail(y))
  ELSE ByteRank(x[1]) < ByteRank(y[1])

\* sorted(self.entries, key=lambda e: e[1]) on entries whose names are bytes
RECURSIVE sorted_entries(_)
sorted_entries(es) ==
  IF es = <<>> THEN <<>>
  ELSE LET n == Len(es)
           e == es[n]
           rest == sorted_entries(SubSeq(es, 1, n - 1))
           k == Cardinality({i \in 1..Len(rest) : str_le(rest[i][2], e[2])})
       IN SubSeq(rest, 1, k) \o <<e>> \o SubSeq(rest, k + 1, Len(rest))

\* Tree._serialize_entries on bytes (lines 58-63)
RECURSIVE concat_entries(_)
concat_entries(es) ==
  IF es = <<>> THEN <<>>
  ELSE es[1][1] \o <<SP>> \o es[1][2] \o <<NUL>> \o fromhex(es[1][3])
       \o concat_entries(Tail(es))
tree_bytes(entries) == concat_entries(sorted_entries(entries))

\* the loop of Tree.from_content (lines 73-81) from position i on; ok is
\* FALSE when the unpacking of mode_name.split(" ", 1) raises ValueError
RECURSIVE parse_entries(_, _, _)
parse_entries(content, i, entries) ==
  IF i > Len(content) THEN [ok |-> TRUE, entries |-> entries]
  ELSE LET null_idx == find(content, NUL, i)
       IN IF null_idx = 0 THEN [ok |-> TRUE, entries |-> entries]
          ELSE LET mode_name == SubSeq(content, i, null_idx - 1)
                   sp == find(mode_name, SP, 1)
                   last_byte == IF null_idx + HashBytes < Len(content)
                                THEN null_idx + HashBytes ELSE Len(content)
                   obj_hash == hex(SubSeq(content, null_idx + 1, last_byte))
               IN IF sp = 0 THEN [ok |-> FALSE, entries |-> entries]
                  ELSE parse_entries(content, null_idx + HashBytes + 1,
                         Append(entries, <<SubSeq(mode_name, 1, sp - 1),
                                           SubSeq(mode_name, sp + 1, Len(mode_name)),
                                           obj_hash>>))

\* Tree.from_content on bytes: the content of the Tree it returns
from_content_bytes(content) ==
  LET r == parse_entries(content, 1, <<>>)
  IN IF r.ok THEN <<"ok", tree_bytes(r.entries)>> ELSE <<"ValueError">>

BlobKind == <<"b", "l", "o", "b">>
TreeKind == <<"t", "r", "e", "e">>
CommitKind == <<"c", "o", "m", "m", "i", "t">>

\* GitObject.deserialize on bytes: <<"ok", type, content>> or <<"ValueError">>
deserialize_bytes(data) ==
  LET decompressed == decompress(data)
      null_idx == find(decompressed, NUL, 1)
  IN IF null_idx = 0 THEN <<"ValueError">>
     ELSE LET parts == split(SubSeq(decompressed, 1, null_idx - 1), SP)
              content == SubSeq(decompressed, null_idx + 1, Len(decompressed))
          IN IF Len(parts) # 2 THEN <<"ValueError">>
             ELSE IF parts[1] = TreeKind
             THEN LET t == from_content_bytes(content)
                  IN IF t[1] = "ok" THEN <<"ok", TreeKind, t[2]>> ELSE t
             ELSE <<"ok", parts[1], content>>

\* the kinds: the three known ones, a passthrough kind and a kind with a space
Kinds == {BlobKind, TreeKind, CommitKind, <<"t", "a", "g">>, <<"a", SP, "b">>}

ContentBytes == {"a", SP, NUL}

\* the encoding of one tree entry with a hash of HashBytes bytes
Entry(mode, name) == mode \o <<SP>> \o name \o <<NUL>> \o [i \in 1..HashBytes |-> "a"]

\* every short byte string, and two trees of two entries
Contents ==
  UNION {[1..n -> ContentBytes] : n \in 0..MaxLen}
    \cup {Entry(<<"1">>, <<"a">>) \o Entry(<<"1">>, <<"b">>),
          Entry(<<"1">>, <<"b">>) \o Entry(<<"1">>, <<"a">>)}

InitCodec ==
  /\ rex = FALSE
  /\ objects = EmptyFn
  /\ index = None
  /\ HEAD = None
  /\ heads = EmptyFn
  /\ files = EmptyFn
  /\ dirs = {}
  /\ last = Last("none", TRUE, "", <<>>, FALSE, None)
  /\ snap = None
  /\ t1 = Tree(<<>>)
  /\ t2 = Tree(<<>>)
  /\ session = "work"
  /\ given \in {GitObject(k, c) : k \in Kinds, c \in Contents}
  /\ decoded = None

\* GitObject.deserialize(given.serialize())
round_trip ==
  /\ decoded = None
  /\ decoded' = deserialize_bytes(serialize_bytes(given))
  /\ UNCHANGED <<repo, trees, session, given>>

NextCodec == round_trip

SpecCodec == InitCodec /\ [][NextCodec]_vars

(***************************************************************************)
(* Properties.                                                             *)
(***************************************************************************)
Range(seq) == {seq[i] : i \in 1..Len(seq)}

\* the files a stored tree describes, as <<path, bytes>>
RECURSIVE TreeFiles(_, _, _)
TreeFiles(objs, tree_hash, base) ==
  LET es == objs[tree_hash].content
  IN UNION {IF es[i][1] = "40000"
            THEN TreeFiles(objs, es[i][3], Append(base, es[i][2]))
            ELSE {<<Append(base, es[i][2]), objs[es[i][3]].content>>} : i \in 1..Len(es)}

\* the files of the working directory outside .rex, as <<path, bytes>>
WdFiles == {<<p, files[p]>> : p \in DOMAIN files}

\* the directories that the files of the working directory need
NeededDirs == UNION {{SubSeq(p, 1, n) : n \in 1..(Len(p) - 1)} : p \in DOMAIN files}

\* the tree line of a stored commit
TreeOf(objs, commit_hash) == _read_commit_tree(objs, commit_hash).tree

\* what HEAD resolves to: the detached text, or the text of the branch file
Resolved == _read_head_ref(HEAD, heads).parent

SyncCheckout(l) == l.op = "checkout" /\ l.via \in {"branch", "hash"}

\* C1 Checkout cleanliness: after a checkout that returned normally through
\* the branch or the hash path, the files of the working directory outside
\* .rex are exactly the files of the target commit's tree, with the bytes of
\* their blobs, and no directory is left over.
C1_CheckoutCleanliness ==
  (SyncCheckout(last) /\ last.ok) =>
     /\ WdFiles = TreeFiles(objects, TreeOf(objects, last.ret), <<>>)
     /\ dirs = NeededDirs

\* C2 Checkout fails before any destructive step: a checkout that ends in an
\* error leaves the working directory and HEAD as they were.
C2_CheckoutFailsClean ==
  [][(last'.op = "checkout" /\ ~last'.ok) =>
       (files' = files /\ dirs' = dirs /\ HEAD' = HEAD)]_vars

\* C3 Checkout does not touch the metadata store: a checkout through the
\* branch or the hash path leaves the object store, the index and every
\* branch file unchanged.
C3_CheckoutKeepsMetadata ==
  [][SyncCheckout(last') =>
       (objects' = objects /\ index' = index /\ heads' = heads)]_vars

\* C4 Detached commit: after a checkout of a commit hash HEAD holds that hash;
\* the next commit succeeds, its parent is that hash, its hash is written
\* into HEAD and no branch file changes.
C4_DetachedCommit ==
  [][/\ (last'.op = "checkout" /\ last'.via = "hash" /\ last'.ok) => HEAD' = Line(last'.arg)
     /\ (last.op = "checkout" /\ last.via = "hash" /\ last.ok /\ last'.op = "commit") =>
          /\ last'.ok
          /\ is_commit(objects', last'.ret)
          /\ parent_of(objects', last'.ret) = last.arg
          /\ HEAD' = Line(last'.ret)
          /\ heads' = heads]_vars

\* C5 Branch commit: after a checkout of an existing branch B, HEAD is the
\* symbolic reference to B; the next commit writes its hash into the branch
\* file of B only: HEAD and every other branch file are unchanged.
C5_BranchCommit ==
  [][/\ (last'.op = "checkout" /\ last'.via = "branch") => strip(HEAD') = Ref(last'.arg)
     /\ (last.op = "checkout" /\ last.via = "branch" /\ last'.op = "commit" /\ last'.ok) =>
          /\ is_commit(objects', last'.ret)
          /\ heads' = func_set(heads, last.arg, Line(last'.ret))
          /\ HEAD' = HEAD]_vars

\* C6 Commit chaining: a commit made while HEAD resolves to a commit P has
\* parent P; a commit made while HEAD resolves to no commit has no parent
\* line; the second of two commits in sequence has the first as parent.
C6_CommitChaining ==
  [][(last'.op = "commit" /\ last'.ok) =>
       /\ IF is_commit(objects, Resolved)
          THEN parent_of(objects', last'.ret) = Resolved
          ELSE parent_of(objects', last'.ret) = None
       /\ (last.op = "commit" /\ last.ok) => parent_of(objects', last'.ret) = last.ret]_vars

\* C7 Commit does not change the index: the index after a commit is the index
\* before it, and a commit made with no add since the previous commit has the
\* tree hash of that commit.
C7_CommitKeepsIndex ==
  [][last'.op = "commit" =>
       /\ index' = index
       /\ (last'.ok /\ snap # None) => TreeOf(objects', last'.ret) = snap]_vars

\* C8 Tree builder order independence: every order of the entries of the index
\* gives the same result of create_tree_from_index.
C8_TreeOrderIndependence ==
  \A o \in Orders(Range(load_index(index))) :
    LET r == create_tree_from_index(save_index(o))
        q == create_tree_from_index(index)
    IN r.ok = q.ok /\ r.hash = q.hash

\* C9 Index/tree/checkout round trip: committing the index and then checking
\* that commit out leaves every path of the index as a file with the bytes of
\* its blob, and no other file in the working directory.
C9_RoundTrip ==
  [][(last.op = "commit" /\ last.ok /\ SyncCheckout(last') /\ last'.ok
        /\ last'.ret = last.ret) =>
       LET idx == load_index(index)
       IN /\ \A i \in 1..Len(idx) :
               /\ is_file(idx[i][1], files')
               /\ read_bytes(idx[i][1], HEAD', index', files') = objects[idx[i][2]].content
          /\ DOMAIN files' \subseteq index_keys(idx)]_vars

DistinctNames(es) == \A i, j \in 1..Len(es) : i # j => es[i][2] # es[j][2]

IsPermutation(es, fs) ==
  /\ Len(es) = Len(fs)
  /\ \A e \in Range(es) \cup Range(fs) :
       Cardinality({i \in 1..Len(es) : es[i] = e}) = Cardinality({i \in 1..Len(fs) : fs[i] = e})

StrictlyAscending(content) ==
  \A i \in 1..(Len(content) - 1) : NameRank(content[i][2]) < NameRank(content[i + 1][2])

\* C10 as stated: two Trees built from the same entries in any insertion
\* order have the same content and hash, in strictly ascending order of name.
C10_Original ==
  IsPermutation(t1.entries, t2.entries) =>
     /\ t1.content = t2.content
     /\ hash(t1) = hash(t2)
     /\ StrictlyAscending(t1.content)

\* C10 Tree canonicality, amended: two Trees built from the same set of
\* entries, no two of which have the same name, in any insertion order,
\* have the same content and hash; the content holds exactly these entries in
\* strictly ascending order of name.
C10_TreeCanonical ==
  (/\ DistinctNames(t1.entries) /\ DistinctNames(t2.entries)
   /\ Range(t1.entries) = Range(t2.entries)) =>
     /\ t1.content = t2.content
     /\ hash(t1) = hash(t2)
     /\ StrictlyAscending(t1.content)
     /\ Range(t1.content) = Range(t1.entries)

C10_Witness ==
  /\ DistinctNames(t1.entries) /\ Range(t1.entries) = Range(t2.entries)
  /\ Len(t1.entries) = 2 /\ t1.entries # t2.entries
  /\ NameRank(t1.entries[1][2]) > NameRank(t1.entries[2][2])

\* C11 Write-once, deduplicating object store: in every step every hash of
\* the store stays in the store with the same bytes; every object is stored
\* under its own hash, and storing an object that is already present leaves
\* the store as it is.
C11_WriteOnceStore ==
  [][/\ \A h \in DOMAIN objects : h \in DOMAIN objects' /\ objects'[h] = objects[h]
     /\ \A h \in DOMAIN objects' :
          /\ hash(read_object(objects', h)) = h
          /\ store_object(objects', read_object(objects', h)) = objects']_vars

\* add has stored the same bytes twice: two paths of the index, one blob
C11_Witness ==
  LET idx == load_index(index)
  IN \E i, j \in 1..Len(idx) :
       i # j /\ idx[i][2] = idx[j][2] /\ has_object(objects, idx[i][2])

\* C12 Codec round trip: deserializing the serialization of any object gives
\* an object of the same kind with the same content.
C12_CodecRoundTrip ==
  decoded # None => decoded = <<"ok", given.type, given.content>>

\* C13 Checkout resolution order: a name with a branch file makes HEAD the
\* symbolic reference to it; else a name of at least six hexadecimal digits
\* makes HEAD that literal value, create flag or not; else create makes a new
\* branch; else the call fails.
C13_ResolutionOrder ==
  [][last'.op = "checkout" =>
       IF last'.arg \in DOMAIN heads
       THEN last'.via = "branch" /\ strip(HEAD') = Ref(last'.arg)
       ELSE IF _is_hash(last'.arg)
       THEN last'.via = "hash" /\ HEAD' = Line(last'.arg)
       ELSE IF last'.create
       THEN last'.via = "create" /\ last'.arg \in DOMAIN heads'
       ELSE last'.via = "unknown" /\ ~last'.ok]_vars

\* the state of the repository and of the working directory
Unchanged(v) == v' = v

\* C14 Unknown checkout target: a checkout of a name that has no branch
\* file and is not hash-like, without the create flag, fails and leaves HEAD,
\* the branch files, the index, the object store and the working directory
\* as they were.
C14_UnknownTarget ==
  [][(/\ last'.op = "checkout" /\ ~last'.create
      /\ last'.arg \in {Str(n) : n \in NonHashNames}
      /\ last'.arg \notin DOMAIN heads) =>
       /\ ~last'.ok
       /\ Unchanged(<<HEAD, heads, index, objects, files, dirs>>)]_vars

\* the call failed on a repository that has a commit and working files
C14_Witness ==
  /\ last.op = "checkout" /\ last.via = "unknown"
  /\ files # EmptyFn /\ heads # EmptyFn

\* C15 Branch creation: the create path writes into the new branch file the
\* hash of the commit HEAD resolves to, or nothing when there is none, makes
\* HEAD the symbolic reference to the new branch and leaves the working
\* directory, the index, the object store and the other branch files alone.
C15_BranchCreation ==
  [][(last'.op = "checkout" /\ last'.via = "create") =>
       /\ heads' = func_set(heads, last'.arg,
                      Line(IF is_commit(objects, Resolved) THEN Resolved ELSE EmptyText))
       /\ HEAD' = Line(Ref(last'.arg))
       /\ Unchanged(<<files, dirs, index, objects>>)]_vars

\* the parent chain from h on: h, its parent, and so on while the hash names
\* a stored commit
RECURSIVE Chain(_, _)
Chain(objs, h) ==
  IF is_commit(objs, h) THEN <<h>> \o Chain(objs, parent_of(objs, h)) ELSE <<>>

\* C16 Log termination and order: log returns, and what it prints is the
\* parent chain from the commit HEAD resolves to, newest first, each commit
\* once, down to the root commit or to the first object that is no commit.
C16_LogChain ==
  [][last'.op = "log" =>
       /\ last'.ok
       /\ last'.ret[2] = Chain(objects, Resolved)
       /\ \A i, j \in 1..Len(last'.ret[2]) : i # j => last'.ret[2][i] # last'.ret[2][j]]_vars

\* C17 Symbolic HEAD names an existing branch: in every state after init in
\* which HEAD is a symbolic reference, the branch file it names exists; in
\* particular init creates the branch file of master.
C17_HeadBranchExists ==
  (rex /\ strip(HEAD)[1] = "ref") => branch_of(strip(HEAD)) \in DOMAIN heads

\* a text that is empty or absent, or the hash of a stored commit
NoneOrCommit(t) == ~truthy(t) \/ is_commit(objects, t)

\* C18 Ref integrity: what HEAD resolves to, and the content of every branch
\* file, is empty or absent or the hash of a commit of the object store.
C18_RefIntegrity ==
  /\ NoneOrCommit(Resolved)
  /\ \A b \in DOMAIN heads : NoneOrCommit(strip(heads[b]))

\* the tree tree_hash is in the store with every blob and subtree below it
RECURSIVE TreeClosed(_, _)
TreeClosed(objs, tree_hash) ==
  /\ has_object(objs, tree_hash)
  /\ objs[tree_hash].type = "tree"
  /\ LET es == objs[tree_hash].content
     IN \A i \in 1..Len(es) :
          IF es[i][1] = "40000" THEN TreeClosed(objs, es[i][3])
          ELSE has_object(objs, es[i][3]) /\ objs[es[i][3]].type = "blob"

\* C19 Referential closure of history: every commit of the store has its
\* tree, and all that the tree reaches, in the store; its parent, when it has
\* one, is a commit of the store.
C19_HistoryClosed ==
  \A h \in DOMAIN objects :
    objects[h].type = "commit" =>
      /\ TreeClosed(objects, TreeOf(objects, h))
      /\ parent_of(objects, h) = None \/ is_commit(objects, parent_of(objects, h))

\* C20 Commit snapshot depends on the index only: the tree a commit records
\* is the tree of the index at the time of the commit, whatever the working
\* directory and HEAD are; after a checkout and no add it is the tree of the
\* last staged state, which the latest commit recorded.
C20_SnapshotOfIndex ==
  [][(last'.op = "commit" /\ last'.ok) =>
       /\ TreeOf(objects', last'.ret) = create_tree_from_index(index).hash
       /\ (SyncCheckout(last) /\ last.ok /\ snap # None) =>
            TreeOf(objects', last'.ret) = snap]_vars

====
